---- MODULE Spec2Model ----
(***************************************************************************)
(* Model of the data-consistency core of the Event Management System       *)
(* (src/main.py, class Database and the EventManagementApp handlers that   *)
(* call it): the authoritative MySQL tables, the in-memory cache that      *)
(* refresh_all_data rebuilds, and the operations that mutate them.         *)
(*                                                                         *)
(* db     the committed content of the authoritative tables                *)
(* cache  the attributes self.events, self.tickets, ... of Database        *)
(* last   the operation that ran last, its main argument and what it       *)
(*        returned (history only; no operation reads it)                   *)
(***************************************************************************)
EXTENDS Integers, FiniteSets, Sequences, TLC

VARIABLES db, cache, last

vars == <<db, cache, last>>

---------------------------------------------------------------------------
(* Bounds of the model *)

MaxEventId == 2
MaxTicketId == 2
MaxPaymentId == 2
MaxVolunteerId == 1
MaxSponsorId == 1
MaxPrice == 1
SeedCapacity == 1
MaxFetchFailures == 1
MaxParticipants == 2
MaxOrganizerId == 2

(* Program constants *)

DefaultParticipantId == 1000
DefaultTicketId == 3000
DefaultVolunteerId == 200
RegistrationPrice == 1

EventIds == 1..MaxEventId
TicketIds == 1..MaxTicketId
PaymentIds == 1..MaxPaymentId
VolunteerIds == 1..MaxVolunteerId
SponsorIds == 1..MaxSponsorId
Prices == 0..MaxPrice
Statuses == {"Pending", "Confirmed", "Cancelled"}
Emails == {"a@x", "b@x"}

TableNames ==
  {"Organizer", "Venue", "Participants", "Event", "Sponsor", "Volunteers",
   "Ticket", "Payment"}

---------------------------------------------------------------------------
(* Rows.  Only the columns that decide behaviour are kept. *)

EventRow(e, v, o) == [Event_id |-> e, Venue_id |-> v, Organizer_id |-> o]

TicketRow(t, e, p, s, pr) ==
  [Ticket_id |-> t, Event_id |-> e, Participant_id |-> p, Status |-> s,
   Price |-> pr]

PaymentRow(k, t) == [Payment_id |-> k, Ticket_id |-> t]

VolunteerRow(v, m, e) == [Volunteer_id |-> v, Email |-> m, Event_id |-> e]

SponsorRow(s, e) == [Sponsor_id |-> s, Event_id |-> e]

ParticipantRow(p, m) == [Participant_id |-> p, Email |-> m]

VenueRow(v, c) == [Venue_id |-> v, Capacity |-> c]

OrganizerRow(o, n) == [Organizer_id |-> o, Name |-> n]

Max(S, default) == IF S = {} THEN default ELSE CHOOSE x \in S : \A y \in S : y <= x

---------------------------------------------------------------------------
(* The storage engine: what one SQL statement does to the tables.  Each    *)
(* operator returns [ok, db]: ok = FALSE is a mysql.connector.Error and    *)
(* leaves the tables as they were.                                         *)

Accepted(d) == [ok |-> TRUE, db |-> d]

Refused(d) == [ok |-> FALSE, db |-> d]

\* FN_GetAvailableCapacity returns NULL when the event or its venue does not
\* resolve (the SELECT ... INTO finds no row): Resolves says whether it does,
\* FN_GetAvailableCapacity is the value when it does.
VenueOfEvent(d, e) ==
  {v \in d.Venue : \E x \in d.Event : x.Event_id = e /\ x.Venue_id = v.Venue_id}

Resolves(d, e) == VenueOfEvent(d, e) # {}

ConfirmedTickets(tickets, e) ==
  Cardinality({t \in tickets : t.Event_id = e /\ t.Status = "Confirmed"})

FN_GetAvailableCapacityOffByOne(d, e) ==
  (CHOOSE v \in VenueOfEvent(d, e) : TRUE).Capacity + 1 - ConfirmedTickets(d.Ticket, e)

FN_GetAvailableCapacity(d, e) ==
  (CHOOSE v \in VenueOfEvent(d, e) : TRUE).Capacity - ConfirmedTickets(d.Ticket, e)

\* FN_GetTotalConfirmedTickets
FN_GetTotalConfirmedTickets(d, e) == ConfirmedTickets(d.Ticket, e)

\* TR_CheckTicketPrice (BEFORE INSERT ON ticket)
TR_CheckTicketPrice(row) == row.Price > 0

\* TR_CheckCapacityBeforeSale (BEFORE INSERT ON ticket): signals when the
\* capacity left is <= 0 and the new row is Confirmed; a NULL capacity does
\* not signal.
TR_CheckCapacityBeforeSale(d, row) ==
  ~(/\ Resolves(d, row.Event_id)
    /\ FN_GetAvailableCapacity(d, row.Event_id) <= 0
    /\ row.Status = "Confirmed")

TicketForeignKeys(d, row) ==
  /\ \E x \in d.Event : x.Event_id = row.Event_id
  /\ \E p \in d.Participants : p.Participant_id = row.Participant_id

SqlInsertTicket(d, row) ==
  IF /\ \A t \in d.Ticket : t.Ticket_id # row.Ticket_id
     /\ TicketForeignKeys(d, row)
     /\ TR_CheckTicketPrice(row)
     /\ TR_CheckCapacityBeforeSale(d, row)
  THEN Accepted([d EXCEPT !.Ticket = @ \cup {row}])
  ELSE Refused(d)

\* UPDATE Ticket SET ... WHERE Ticket_id = id: no trigger runs on UPDATE; a
\* statement that matches no row succeeds.
SqlUpdateTicket(d, row) ==
  IF (\E t \in d.Ticket : t.Ticket_id = row.Ticket_id) /\ ~TicketForeignKeys(d, row)
  THEN Refused(d)
  ELSE Accepted([d EXCEPT !.Ticket =
                   {IF t.Ticket_id = row.Ticket_id THEN row ELSE t : t \in @}])

SqlSetTicketStatus(d, id, s) ==
  Accepted([d EXCEPT !.Ticket =
              {IF t.Ticket_id = id THEN [t EXCEPT !.Status = s] ELSE t : t \in @}])

\* Payment_id is AUTO_INCREMENT: the caller never gives it.  The smallest
\* free id stands for the generated one (0: the model's ids are used up, and
\* the operations that insert a Payment are not taken then).
NextPaymentId(d) ==
  LET free == {k \in PaymentIds : \A p \in d.Payment : p.Payment_id # k}
  IN IF free = {} THEN 0 ELSE CHOOSE k \in free : \A j \in free : k <= j

SqlInsertPayment(d, t) ==
  IF \E x \in d.Ticket : x.Ticket_id = t
  THEN Accepted([d EXCEPT !.Payment = @ \cup {PaymentRow(NextPaymentId(d), t)}])
  ELSE Refused(d)

SqlDeletePaymentsOfTicket(d, t) ==
  Accepted([d EXCEPT !.Payment = {p \in @ : p.Ticket_id # t}])

\* DELETE FROM Ticket with no foreign key on Payment.Ticket_id.
SqlDeleteTicketsUnrestricted(d, ids) ==
  Accepted([d EXCEPT !.Ticket = {t \in @ : t.Ticket_id \notin ids}])

\* DELETE FROM Ticket: refused while a Payment still references the row.
SqlDeleteTickets(d, ids) ==
  IF \E p \in d.Payment : p.Ticket_id \in ids
  THEN Refused(d)
  ELSE Accepted([d EXCEPT !.Ticket = {t \in @ : t.Ticket_id \notin ids}])

\* DELETE FROM Volunteers without the WHERE clause.
SqlDeleteVolunteersOfAnyEvent(d, e) == Accepted([d EXCEPT !.Volunteers = {}])

SqlDeleteVolunteersOfEvent(d, e) ==
  Accepted([d EXCEPT !.Volunteers = {v \in @ : v.Event_id # e}])

SqlDeleteSponsorsOfEvent(d, e) ==
  Accepted([d EXCEPT !.Sponsor = {s \in @ : s.Event_id # e}])

\* DELETE FROM Event: refused while a Ticket, Volunteer or Sponsor still
\* references the row.
SqlDeleteEvent(d, e) ==
  IF \/ \E t \in d.Ticket : t.Event_id = e
     \/ \E v \in d.Volunteers : v.Event_id = e
     \/ \E s \in d.Sponsor : s.Event_id = e
  THEN Refused(d)
  ELSE Accepted([d EXCEPT !.Event = {x \in @ : x.Event_id # e}])

SqlInsertEvent(d, row) ==
  IF /\ \A x \in d.Event : x.Event_id # row.Event_id
     /\ \E v \in d.Venue : v.Venue_id = row.Venue_id
     /\ \E o \in d.Organizer : o.Organizer_id = row.Organizer_id
  THEN Accepted([d EXCEPT !.Event = @ \cup {row}])
  ELSE Refused(d)

SqlInsertVolunteer(d, row) ==
  IF /\ \A v \in d.Volunteers : v.Volunteer_id # row.Volunteer_id
     /\ \E x \in d.Event : x.Event_id = row.Event_id
  THEN Accepted([d EXCEPT !.Volunteers = @ \cup {row}])
  ELSE Refused(d)

SqlInsertSponsor(d, row) ==
  IF /\ \A s \in d.Sponsor : s.Sponsor_id # row.Sponsor_id
     /\ \E x \in d.Event : x.Event_id = row.Event_id
  THEN Accepted([d EXCEPT !.Sponsor = @ \cup {row}])
  ELSE Refused(d)

SqlInsertParticipant(d, row) ==
  IF \A p \in d.Participants : p.Participant_id # row.Participant_id
  THEN Accepted([d EXCEPT !.Participants = @ \cup {row}])
  ELSE Refused(d)

---------------------------------------------------------------------------
(* Database.execute_query for a write on tables d: the statement's result  *)
(* r is committed and True returned, or an Error is caught and False       *)
(* returned.  `up` says whether the storage answers this call.             *)

execute_query(up, d, r) == IF up /\ r.ok THEN r ELSE Refused(d)

---------------------------------------------------------------------------
(* Database.refresh_all_data: every table is fetched again; a fetch that   *)
(* fails returns [] and `or []` stores the empty list.  F is the set of    *)
(* tables whose fetch fails.                                               *)

Fetch(d, F, name) == IF name \in F THEN {} ELSE d[name]

refresh_all_data(d, F) ==
  [organizers |-> Fetch(d, F, "Organizer"),
   venues |-> Fetch(d, F, "Venue"),
   participants |-> Fetch(d, F, "Participants"),
   events |-> Fetch(d, F, "Event"),
   sponsors |-> Fetch(d, F, "Sponsor"),
   volunteers |-> Fetch(d, F, "Volunteers"),
   tickets |-> Fetch(d, F, "Ticket"),
   payments |-> Fetch(d, F, "Payment")]

FetchFailures == {F \in SUBSET TableNames : Cardinality(F) <= MaxFetchFailures}

RowCount(d) ==
  Cardinality(d.Organizer) + Cardinality(d.Venue) + Cardinality(d.Participants)
  + Cardinality(d.Event) + Cardinality(d.Sponsor) + Cardinality(d.Volunteers)
  + Cardinality(d.Ticket) + Cardinality(d.Payment)

\* What `last` records: the operation, its main argument, what it returned
\* and how many rows fewer the tables hold after it than before.
Returned(op, id, res, before, after) ==
  [op |-> op, id |-> id, res |-> res, removed |-> RowCount(before) - RowCount(after)]

---------------------------------------------------------------------------
(* Initial state: Database.__init__ against a seeded store. *)

SeedDb ==
  [Organizer |-> {OrganizerRow(1, "Org")},
   Venue |-> {VenueRow(1, SeedCapacity)},
   Participants |-> {ParticipantRow(1, "a@x")},
   Event |-> {EventRow(e, 1, 1) : e \in EventIds},
   Sponsor |-> {},
   Volunteers |-> {},
   Ticket |-> {},
   Payment |-> {}]

Init ==
  /\ db = SeedDb
  /\ cache = refresh_all_data(SeedDb, {})
  /\ last = Returned("init", 0, "True", SeedDb, SeedDb)

---------------------------------------------------------------------------
(* Database.delete_event: the cascade runs on one cursor inside one        *)
(* transaction.  failAt = 0: no statement fails; failAt = k: statement k   *)
(* raises an Error (1 the SELECT of the event's tickets, 2 the Payment     *)
(* deletes, 3 the Ticket delete, 4 the Volunteers delete, 5 the Sponsor    *)
(* delete, 6 the Event delete, 7 the commit).  Each Cascade<k> is the      *)
(* transaction's [ok, db] after statement k.                               *)
(* db and cache hold the eight entity tables.  The Log table and           *)
(* self.logs, which log_event_deletion appends to with a commit of its own *)
(* before the cascade starts, are kept outside them: no statement of the   *)
(* cascade and no rollback reaches that row.                               *)

CommitStep == 7

TicketsOfEvent(d, e) == {t.Ticket_id : t \in {x \in d.Ticket : x.Event_id = e}}

SqlDeletePaymentsOfTickets(d, ids) ==
  Accepted([d EXCEPT !.Payment = {p \in @ : p.Ticket_id \notin ids}])

\* An Error of statement k caught and dropped: the cascade goes on.
StatementErrorDropped(k, failAt, prev, r) ==
  IF ~prev.ok THEN prev
  ELSE IF failAt = k THEN Accepted(prev.db)
  ELSE IF r.ok THEN r ELSE Accepted(r.db)

Statement(k, failAt, prev, r) ==
  IF ~prev.ok THEN prev
  ELSE IF failAt = k THEN Refused(prev.db)
  ELSE r

CascadeSelect(d, e, failAt) == Statement(1, failAt, Accepted(d), Accepted(d))

CascadePayments(d, e, failAt) ==
  LET prev == CascadeSelect(d, e, failAt)
  IN Statement(2, failAt, prev,
               SqlDeletePaymentsOfTickets(prev.db, TicketsOfEvent(d, e)))

\* The Ticket delete issued before the Payment deletes.
CascadeTicketsFirst(d, e, failAt) ==
  LET prev == CascadeSelect(d, e, failAt)
  IN Statement(3, failAt, prev,
               SqlDeleteTickets(prev.db, TicketsOfEvent(prev.db, e)))

CascadeTickets(d, e, failAt) ==
  LET prev == CascadePayments(d, e, failAt)
  IN Statement(3, failAt, prev,
               SqlDeleteTickets(prev.db, TicketsOfEvent(prev.db, e)))

CascadeVolunteers(d, e, failAt) ==
  LET prev == CascadeTickets(d, e, failAt)
  IN Statement(4, failAt, prev, SqlDeleteVolunteersOfEvent(prev.db, e))

CascadeSponsors(d, e, failAt) ==
  LET prev == CascadeVolunteers(d, e, failAt)
  IN Statement(5, failAt, prev, SqlDeleteSponsorsOfEvent(prev.db, e))

CascadeEvent(d, e, failAt) ==
  LET prev == CascadeSponsors(d, e, failAt)
  IN Statement(6, failAt, prev, SqlDeleteEvent(prev.db, e))

CascadeCommit(d, e, failAt) ==
  LET prev == CascadeEvent(d, e, failAt)
  IN Statement(CommitStep, failAt, prev, prev)

\* No rollback: what the transaction did so far stays.
RollbackSkipped(before, partial) == partial

\* self.connection.rollback(): the tables are those before the transaction.
Rollback(before, partial) == before

delete_event(e, failAt, F) ==
  LET r == CascadeCommit(db, e, failAt)
  IN /\ db' = IF r.ok THEN r.db ELSE Rollback(db, r.db)
     /\ cache' = IF r.ok THEN refresh_all_data(r.db, F) ELSE cache
     /\ last' = Returned("delete_event", e, IF r.ok THEN "True" ELSE "False", db, db')

---------------------------------------------------------------------------
(* Single-statement mutations: execute_query, then refresh_all_data when   *)
(* it returned True.                                                       *)

MutationNoRefresh(op, id, r, F) ==
  /\ db' = r.db
  /\ cache' = cache
  /\ last' = Returned(op, id, IF r.ok THEN "True" ELSE "False", db, r.db)

Mutation(op, id, r, F) ==
  /\ db' = r.db
  /\ cache' = IF r.ok THEN refresh_all_data(r.db, F) ELSE cache
  /\ last' = Returned(op, id, IF r.ok THEN "True" ELSE "False", db, r.db)

add_event(row, up, F) ==
  Mutation("add_event", row.Event_id, execute_query(up, db, SqlInsertEvent(db, row)), F)

add_ticket(row, up, F) ==
  Mutation("add_ticket", row.Ticket_id, execute_query(up, db, SqlInsertTicket(db, row)), F)

update_ticket(row, up, F) ==
  Mutation("update_ticket", row.Ticket_id, execute_query(up, db, SqlUpdateTicket(db, row)), F)

add_volunteer(row, up, F) ==
  Mutation("add_volunteer", row.Volunteer_id,
           execute_query(up, db, SqlInsertVolunteer(db, row)), F)

add_sponsor(row, up, F) ==
  Mutation("add_sponsor", row.Sponsor_id, execute_query(up, db, SqlInsertSponsor(db, row)), F)

\* Database.delete_ticket: the Payment delete commits on its own and its
\* result is ignored; then the Ticket delete.
delete_ticket(id, up1, up2, F) ==
  LET r1 == execute_query(up1, db, SqlDeletePaymentsOfTicket(db, id))
      r2 == execute_query(up2, r1.db, SqlDeleteTickets(r1.db, {id}))
  IN Mutation("delete_ticket", id, r2, F)

---------------------------------------------------------------------------
(* The other single-statement mutations of Database.  The schema's foreign *)
(* keys refuse an INSERT or UPDATE that names a parent row that does not   *)
(* exist and a DELETE of a parent row that is still referenced.            *)

EventForeignKeysUnchecked(d, row) == TRUE

EventForeignKeys(d, row) ==
  /\ \E v \in d.Venue : v.Venue_id = row.Venue_id
  /\ \E o \in d.Organizer : o.Organizer_id = row.Organizer_id

HelperForeignKeys(d, row) == \E x \in d.Event : x.Event_id = row.Event_id

ParticipantReferenced(d, p) == \E t \in d.Ticket : t.Participant_id = p

VenueReferenced(d, v) == \E x \in d.Event : x.Venue_id = v

SqlUpdateEvent(d, row) ==
  IF (\E x \in d.Event : x.Event_id = row.Event_id) /\ ~EventForeignKeys(d, row)
  THEN Refused(d)
  ELSE Accepted([d EXCEPT !.Event =
                   {IF x.Event_id = row.Event_id THEN row ELSE x : x \in @}])

SqlUpdateParticipant(d, row) ==
  Accepted([d EXCEPT !.Participants =
              {IF p.Participant_id = row.Participant_id THEN row ELSE p : p \in @}])

SqlDeleteParticipant(d, p) ==
  IF ParticipantReferenced(d, p)
  THEN Refused(d)
  ELSE Accepted([d EXCEPT !.Participants = {x \in @ : x.Participant_id # p}])

SqlUpdateVolunteer(d, row) ==
  IF (\E v \in d.Volunteers : v.Volunteer_id = row.Volunteer_id) /\ ~HelperForeignKeys(d, row)
  THEN Refused(d)
  ELSE Accepted([d EXCEPT !.Volunteers =
                   {IF v.Volunteer_id = row.Volunteer_id THEN row ELSE v : v \in @}])

SqlDeleteVolunteer(d, v) ==
  Accepted([d EXCEPT !.Volunteers = {x \in @ : x.Volunteer_id # v}])

SqlInsertVenue(d, row) ==
  IF \A v \in d.Venue : v.Venue_id # row.Venue_id
  THEN Accepted([d EXCEPT !.Venue = @ \cup {row}])
  ELSE Refused(d)

SqlUpdateVenue(d, row) ==
  Accepted([d EXCEPT !.Venue =
              {IF v.Venue_id = row.Venue_id THEN row ELSE v : v \in @}])

SqlDeleteVenue(d, v) ==
  IF VenueReferenced(d, v)
  THEN Refused(d)
  ELSE Accepted([d EXCEPT !.Venue = {x \in @ : x.Venue_id # v}])

SqlUpdateSponsor(d, row) ==
  IF (\E k \in d.Sponsor : k.Sponsor_id = row.Sponsor_id) /\ ~HelperForeignKeys(d, row)
  THEN Refused(d)
  ELSE Accepted([d EXCEPT !.Sponsor =
                   {IF k.Sponsor_id = row.Sponsor_id THEN row ELSE k : k \in @}])

SqlDeleteSponsor(d, k) ==
  Accepted([d EXCEPT !.Sponsor = {x \in @ : x.Sponsor_id # k}])

update_event(row, up, F) ==
  Mutation("update_event", row.Event_id, execute_query(up, db, SqlUpdateEvent(db, row)), F)

add_participant(row, up, F) ==
  Mutation("add_participant", row.Participant_id,
           execute_query(up, db, SqlInsertParticipant(db, row)), F)

update_participant(row, up, F) ==
  Mutation("update_participant", row.Participant_id,
           execute_query(up, db, SqlUpdateParticipant(db, row)), F)

delete_participant(p, up, F) ==
  Mutation("delete_participant", p, execute_query(up, db, SqlDeleteParticipant(db, p)), F)

update_volunteer(row, up, F) ==
  Mutation("update_volunteer", row.Volunteer_id,
           execute_query(up, db, SqlUpdateVolunteer(db, row)), F)

delete_volunteer(v, up, F) ==
  Mutation("delete_volunteer", v, execute_query(up, db, SqlDeleteVolunteer(db, v)), F)

add_venue(row, up, F) ==
  Mutation("add_venue", row.Venue_id, execute_query(up, db, SqlInsertVenue(db, row)), F)

update_venue(row, up, F) ==
  Mutation("update_venue", row.Venue_id, execute_query(up, db, SqlUpdateVenue(db, row)), F)

delete_venue(v, up, F) ==
  Mutation("delete_venue", v, execute_query(up, db, SqlDeleteVenue(db, v)), F)

update_sponsor(row, up, F) ==
  Mutation("update_sponsor", row.Sponsor_id,
           execute_query(up, db, SqlUpdateSponsor(db, row)), F)

delete_sponsor(k, up, F) ==
  Mutation("delete_sponsor", k, execute_query(up, db, SqlDeleteSponsor(db, k)), F)

\* EventManagementApp.add_participant and add_volunteer: the dialog's email
\* is looked up in the cache before Database.add_participant / add_volunteer.
EmailExists == "Email already exists!"

App_add_participant(row, up, F) ==
  IF \E p \in cache.participants : p.Email = row.Email
  THEN /\ last' = Returned("App_add_participant", row.Participant_id, EmailExists, db, db)
       /\ UNCHANGED <<db, cache>>
  ELSE Mutation("App_add_participant", row.Participant_id,
                execute_query(up, db, SqlInsertParticipant(db, row)), F)

App_add_volunteer(row, up, F) ==
  /\ \E x \in cache.events : x.Event_id = row.Event_id
  /\ IF \E v \in cache.volunteers : v.Email = row.Email
     THEN /\ last' = Returned("App_add_volunteer", row.Volunteer_id, EmailExists, db, db)
          /\ UNCHANGED <<db, cache>>
     ELSE Mutation("App_add_volunteer", row.Volunteer_id,
                   execute_query(up, db, SqlInsertVolunteer(db, row)), F)

---------------------------------------------------------------------------
(* Database.get_available_capacity: three tiers.  t1, t2 say whether the   *)
(* tier's query executes; execute_query turns a failure into [].           *)

CachedCapacity(c, e) ==
  LET evs == {x \in c.events : x.Event_id = e}
      vns == {v \in c.venues : \E x \in evs : x.Venue_id = v.Venue_id}
  IN IF evs = {} \/ vns = {} THEN 0
     ELSE (CHOOSE v \in vns : TRUE).Capacity - ConfirmedTickets(c.tickets, e)

get_available_capacity(d, c, e, t1, t2) ==
  IF t1 /\ Resolves(d, e) THEN FN_GetAvailableCapacity(d, e)
  ELSE IF t2 /\ Resolves(d, e) THEN FN_GetAvailableCapacity(d, e)
  ELSE CachedCapacity(c, e)

\* Database.check_ticket_price
check_ticket_price(price) == price > 0

\* EventManagementApp.add_ticket: the dialog offers the cached events and
\* participants; then the price check, the capacity check and
\* Database.add_ticket.
App_add_ticket(row, t1, t2, up, F) ==
  /\ \E x \in cache.events : x.Event_id = row.Event_id
  /\ \E x \in cache.participants : x.Participant_id = row.Participant_id
  /\ IF ~check_ticket_price(row.Price)
     THEN /\ last' = Returned("App_add_ticket", row.Ticket_id, "price error", db, db)
          /\ UNCHANGED <<db, cache>>
     ELSE IF /\ get_available_capacity(db, cache, row.Event_id, t1, t2) <= 0
             /\ row.Status = "Confirmed"
     THEN /\ last' = Returned("App_add_ticket", row.Ticket_id, "capacity error", db, db)
          /\ UNCHANGED <<db, cache>>
     ELSE Mutation("App_add_ticket", row.Ticket_id,
                   execute_query(up, db, SqlInsertTicket(db, row)), F)

---------------------------------------------------------------------------
(* Database.confirm_payment.  routine says whether the call of             *)
(* SP_ConfirmPayment executes; when it raises an Error the manual path     *)
(* runs on the cache.  up1, up2: the manual path's two execute_query       *)
(* calls.                                                                  *)

\* SP_ConfirmPayment: INSERT INTO Payment, then UPDATE Ticket, unconditionally.
SP_ConfirmPayment(d, id) ==
  LET ins == SqlInsertPayment(d, id)
  IN IF ins.ok THEN SqlSetTicketStatus(ins.db, id, "Confirmed") ELSE Refused(d)

Recorded == "confirmed and payment recorded"
OnRecord == "confirmed; payment already on record"
NotFound == "Error: ticket not found"
Cancelled == "Error: cancelled ticket"
Exists == "Error: payment already exists"

\* The manual path: [db, res, refresh] from tables d and cache c.
ManualConfirmPayment(d, c, id, up1, up2) ==
  LET found == {t \in c.tickets : t.Ticket_id = id}
      ticket == CHOOSE t \in found : TRUE
      existing_payment == \E p \in c.payments : p.Ticket_id = id
      upd == execute_query(up1, d, SqlSetTicketStatus(d, id, "Confirmed"))
      ins == execute_query(up1, d, SqlInsertPayment(d, id))
      upd2 == execute_query(up2, ins.db, SqlSetTicketStatus(ins.db, id, "Confirmed"))
  IN IF found = {} THEN [db |-> d, res |-> NotFound, refresh |-> FALSE]
     ELSE IF ticket.Status = "Cancelled"
     THEN [db |-> d, res |-> Cancelled, refresh |-> FALSE]
     ELSE IF existing_payment
     THEN IF ticket.Status = "Pending"
          THEN [db |-> upd.db, res |-> OnRecord, refresh |-> TRUE]
          ELSE [db |-> d, res |-> Exists, refresh |-> FALSE]
     ELSE [db |-> upd2.db, res |-> Recorded, refresh |-> TRUE]

ConfirmPaymentResult(d, c, id, routine, up1, up2) ==
  LET sp == SP_ConfirmPayment(d, id)
  IN IF routine /\ sp.ok
     THEN [db |-> sp.db, res |-> Recorded, refresh |-> TRUE]
     ELSE ManualConfirmPayment(d, c, id, up1, up2)

confirm_payment(id, routine, up1, up2, F) ==
  LET r == ConfirmPaymentResult(db, cache, id, routine, up1, up2)
  IN /\ NextPaymentId(db) # 0
     /\ db' = r.db
     /\ cache' = IF r.refresh THEN refresh_all_data(r.db, F) ELSE cache
     /\ last' = Returned("confirm_payment", id, r.res, db, r.db)

---------------------------------------------------------------------------
(* Database.mark_ticket_as_pending: SP_MarkTicketAsPending, or the same    *)
(* UPDATE through execute_query.                                           *)

SP_MarkTicketAsPending(d, id) == SqlSetTicketStatus(d, id, "Pending")

mark_ticket_as_pending(id, routine, up, F) ==
  LET r == IF routine THEN SP_MarkTicketAsPending(db, id)
           ELSE execute_query(up, db, SqlSetTicketStatus(db, id, "Pending"))
  IN Mutation("mark_ticket_as_pending", id, r, F)

---------------------------------------------------------------------------
(* Public registration. *)

get_next_participant_id(c) ==
  Max({p.Participant_id : p \in c.participants}, DefaultParticipantId) + 1

get_next_volunteer_id(c) ==
  Max({v.Volunteer_id : v \in c.volunteers}, DefaultVolunteerId) + 1

NextTicketId(c) == Max({t.Ticket_id : t \in c.tickets}, DefaultTicketId) + 1

register_user_as_participant(e, email, up1, up2, F) ==
  LET new_pid == get_next_participant_id(cache)
      r1 == execute_query(up1, db, SqlInsertParticipant(db, ParticipantRow(new_pid, email)))
      new_tid == NextTicketId(cache)
      r2 == execute_query(up2, r1.db,
              SqlInsertTicket(r1.db,
                TicketRow(new_tid, e, new_pid, "Pending", RegistrationPrice)))
  IN /\ Cardinality(db.Participants) < MaxParticipants
     /\ Cardinality(db.Ticket) < MaxTicketId
     /\ IF ~r1.ok
        THEN /\ last' = Returned("register_user_as_participant", e,
                                 "Failed to create participant record", db, db)
             /\ UNCHANGED <<db, cache>>
        ELSE IF ~r2.ok
        THEN /\ db' = r1.db
             /\ last' = Returned("register_user_as_participant", e,
                                 "Participant created but failed to create ticket",
                                 db, r1.db)
             /\ UNCHANGED cache
        ELSE /\ db' = r2.db
             /\ cache' = refresh_all_data(r2.db, F)
             /\ last' = Returned("register_user_as_participant", e, "True", db, r2.db)

register_user_as_volunteer(e, email, up, F) ==
  LET new_vid == get_next_volunteer_id(cache)
      r == execute_query(up, db, SqlInsertVolunteer(db, VolunteerRow(new_vid, email, e)))
  IN /\ Cardinality(db.Volunteers) < MaxVolunteerId
     /\ Mutation("register_user_as_volunteer", e, r, F)

---------------------------------------------------------------------------
(* The inputs the operations are called with. *)

ParticipantRefs == {1}

TicketInputs ==
  {TicketRow(t, e, p, s, pr) :
     t \in TicketIds, e \in EventIds, p \in ParticipantRefs, s \in Statuses, pr \in Prices}

EventInputs == {EventRow(e, 1, 1) : e \in EventIds}

VolunteerInputs == {VolunteerRow(v, m, e) : v \in VolunteerIds, m \in Emails, e \in EventIds}

SponsorInputs == {SponsorRow(s, e) : s \in SponsorIds, e \in EventIds}

---------------------------------------------------------------------------
(* The cascade from any store.  The program starts on whatever the         *)
(* database holds: every event present, each ticket id free or a ticket of *)
(* some event, paid (Confirmed, with its one Payment) or not (Pending),    *)
(* each volunteer and sponsor id free or assigned to some event.  No       *)
(* operation of the cascade depends on which id a row has, so one store    *)
(* stands for all that differ from it by a renaming of ids: the ids are    *)
(* handed out in the order of the events (InOrder).  Every cascade         *)
(* statement may fail; the refresh's fetches succeed.                      *)

\* 0 (a free id) comes after every event.
EventRank(ev) == IF ev = 0 THEN MaxEventId + 1 ELSE ev

InOrder(ids, rank(_)) == \A i \in ids, j \in ids : i < j => rank(i) <= rank(j)

TicketShapes ==
  {f \in [TicketIds -> [ev : 0..MaxEventId, paid : BOOLEAN]] :
     /\ \A t \in TicketIds : f[t].ev = 0 => ~f[t].paid
     /\ LET rank(t) == 2 * EventRank(f[t].ev) + (IF f[t].paid THEN 0 ELSE 1)
        IN InOrder(TicketIds, rank)}

HelperShapes(ids) ==
  {g \in [ids -> 0..MaxEventId] :
     LET rank(v) == EventRank(g[v]) IN InOrder(ids, rank)}

StoreOf(f, g, h) ==
  [SeedDb EXCEPT
     !.Ticket = {TicketRow(t, f[t].ev, 1, IF f[t].paid THEN "Confirmed" ELSE "Pending",
                           RegistrationPrice) :
                   t \in {x \in TicketIds : f[x].ev # 0}},
     !.Payment = {PaymentRow(t, t) : t \in {x \in TicketIds : f[x].paid}},
     !.Volunteers = {VolunteerRow(v, IF v = 1 THEN "a@x" ELSE "b@x", g[v]) :
                       v \in {x \in VolunteerIds : g[x] # 0}},
     !.Sponsor = {SponsorRow(k, h[k]) : k \in {x \in SponsorIds : h[x] # 0}}]

InitCascade ==
  \E f \in TicketShapes, g \in HelperShapes(VolunteerIds),
     h \in HelperShapes(SponsorIds) :
    /\ db = StoreOf(f, g, h)
    /\ cache = refresh_all_data(StoreOf(f, g, h), {})
    /\ last = Returned("init", 0, "True", SeedDb, SeedDb)

NextCascade ==
  \E e \in EventIds, failAt \in 0..CommitStep : delete_event(e, failAt, {})

SpecCascade == InitCascade /\ [][NextCascade]_vars

---------------------------------------------------------------------------
(* Payments under a single writer, from the seeded store: tickets are      *)
(* created, updated, paid, set back to Pending and deleted, and events     *)
(* deleted; every statement may fail and either strategy may serve         *)
(* confirm_payment and mark_ticket_as_pending; the refresh's fetches       *)
(* succeed.  Tickets are given a price above zero here.                    *)

PricedTicketInputs == {row \in TicketInputs : row.Price = MaxPrice}

NextPayments ==
  \/ \E row \in PricedTicketInputs, up \in BOOLEAN : add_ticket(row, up, {})
  \/ \E row \in PricedTicketInputs, up \in BOOLEAN : update_ticket(row, up, {})
  \/ \E id \in TicketIds, up1 \in BOOLEAN, up2 \in BOOLEAN : delete_ticket(id, up1, up2, {})
  \/ \E id \in TicketIds, routine \in BOOLEAN, up1 \in BOOLEAN, up2 \in BOOLEAN :
       confirm_payment(id, routine, up1, up2, {})
  \/ \E id \in TicketIds, routine \in BOOLEAN, up \in BOOLEAN :
       mark_ticket_as_pending(id, routine, up, {})
  \/ \E e \in EventIds, failAt \in 0..CommitStep : delete_event(e, failAt, {})

SpecPayments == Init /\ [][NextPayments]_vars

---------------------------------------------------------------------------
(* Ticket creation and update under a single writer, from the seeded       *)
(* store: Database.add_ticket, the application's add_ticket,               *)
(* Database.update_ticket and public registration, with any price and      *)
(* status; every statement may fail; the refresh's fetches succeed.        *)

NextTickets ==
  \/ \E row \in TicketInputs, up \in BOOLEAN : add_ticket(row, up, {})
  \/ \E row \in TicketInputs, t1 \in BOOLEAN, t2 \in BOOLEAN, up \in BOOLEAN :
       App_add_ticket(row, t1, t2, up, {})
  \/ \E row \in TicketInputs, up \in BOOLEAN : update_ticket(row, up, {})
  \/ \E e \in EventIds, m \in Emails, up1 \in BOOLEAN, up2 \in BOOLEAN :
       register_user_as_participant(e, m, up1, up2, {})

SpecTickets == Init /\ [][NextTickets]_vars

---------------------------------------------------------------------------
(* The tiered queries.  Each tier's statement has one of three outcomes:   *)
(* "ok"     it executes;                                                   *)
(* "error"  mysql raises an Error (the routine is not installed, the       *)
(*          statement fails): execute_query catches it, shows the error    *)
(*          dialog and returns [];                                         *)
(* "raise"  another exception leaves execute_query (self.connection is     *)
(*          None after a failed reconnect) and the caller's bare except    *)
(*          takes it.                                                      *)
(* An answer records the tier whose return statement produced the value,   *)
(* the value, and whether execute_query showed its error dialog.           *)

TierOutcomes == {"ok", "error", "raise"}

Answer(tier, value, dialog) == [tier |-> tier, value |-> value, dialog |-> dialog]

\* The direct query of get_available_capacity: Event JOIN Venue LEFT JOIN
\* the Confirmed tickets, one row per resolved event.
DirectAvailableCapacity(d, e) ==
  (CHOOSE v \in VenueOfEvent(d, e) : TRUE).Capacity
  - Cardinality({t \in d.Ticket : t.Event_id = e /\ t.Status = "Confirmed"})

AvailableCapacityAnswer(d, c, e, o1, o2) ==
  IF o1 = "ok" /\ Resolves(d, e)
  THEN Answer(1, FN_GetAvailableCapacity(d, e), FALSE)
  ELSE IF o2 = "ok" /\ Resolves(d, e)
  THEN Answer(2, DirectAvailableCapacity(d, e), o1 = "error")
  ELSE Answer(3, CachedCapacity(c, e), o1 = "error" \/ o2 = "error")

\* Database.get_total_confirmed_tickets: the second tier returns 0 when its
\* query came back empty; the cache is read only in the bare except.
get_total_confirmed_tickets(d, c, e, o1, o2) ==
  IF o1 = "ok"
  THEN Answer(1, FN_GetTotalConfirmedTickets(d, e), FALSE)
  ELSE IF o2 = "ok"
  THEN Answer(2, Cardinality({t \in d.Ticket : t.Event_id = e /\ t.Status = "Confirmed"}),
              o1 = "error")
  ELSE IF o2 = "error"
  THEN Answer(2, 0, TRUE)
  ELSE Answer(3, ConfirmedTickets(c.tickets, e), o1 = "error")

\* FN_GetOrganizerName and the direct SELECT Name: the names found.
OrganizerNamesFound(organizers, o) == {x.Name : x \in {y \in organizers : y.Organizer_id = o}}

Unknown == "Unknown"

get_organizer_name(d, c, o, o1, o2) ==
  LET stored == OrganizerNamesFound(d.Organizer, o)
      cached == OrganizerNamesFound(c.organizers, o)
      truthy == stored # {} /\ stored # {""}
  IN IF o1 = "ok" /\ truthy
     THEN Answer(1, CHOOSE n \in stored : TRUE, FALSE)
     ELSE IF o2 = "ok" /\ truthy
     THEN Answer(2, CHOOSE n \in stored : TRUE, o1 = "error")
     ELSE Answer(3, IF cached = {} THEN Unknown ELSE CHOOSE n \in cached : TRUE,
                 o1 = "error" \/ o2 = "error")

\* Database.get_event_summary: SP_GetEventSummary's row when the routine
\* runs and the event resolves, else the cached event and venue; Available
\* and Confirmed_Tickets come from the two queries above.
EventNotFound == [error |-> "Event not found"]

VenueNotFound == [error |-> "Venue not found"]

get_event_summary(d, c, e, routine, o1, o2, p1, p2) ==
  LET available == AvailableCapacityAnswer(d, c, e, o1, o2)
      confirmed == get_total_confirmed_tickets(d, c, e, p1, p2)
      evs == {x \in c.events : x.Event_id = e}
      vns == {v \in c.venues : \E x \in evs : x.Venue_id = v.Venue_id}
      summary(tier, capacity) ==
        Answer(tier,
               [Capacity |-> capacity, Available |-> available.value,
                Confirmed_Tickets |-> confirmed.value],
               available.dialog \/ confirmed.dialog)
  IN IF routine = "ok" /\ Resolves(d, e)
     THEN summary(1, (CHOOSE v \in VenueOfEvent(d, e) : TRUE).Capacity)
     ELSE IF evs = {}
     THEN Answer(3, EventNotFound, FALSE)
     ELSE IF vns = {}
     THEN Answer(3, VenueNotFound, FALSE)
     ELSE summary(3, (CHOOSE v \in vns : TRUE).Capacity)

\* A query answers and changes neither the store nor the cache.
Query(op, id, answer) ==
  /\ last' = [op |-> op, id |-> id, res |-> answer, removed |-> 0]
  /\ UNCHANGED <<db, cache>>

GetAvailableCapacity(e, o1, o2) ==
  Query("get_available_capacity", e, AvailableCapacityAnswer(db, cache, e, o1, o2))

GetTotalConfirmedTickets(e, o1, o2) ==
  Query("get_total_confirmed_tickets", e, get_total_confirmed_tickets(db, cache, e, o1, o2))

GetOrganizerName(o, o1, o2) ==
  Query("get_organizer_name", o, get_organizer_name(db, cache, o, o1, o2))

GetEventSummary(e, routine, o1, o2, p1, p2) ==
  Query("get_event_summary", e, get_event_summary(db, cache, e, routine, o1, o2, p1, p2))

\* The application's refresh: Database.refresh_all_data on its own.
reload(F) ==
  /\ cache' = refresh_all_data(db, F)
  /\ last' = [op |-> "refresh_all_data", id |-> 0, res |-> F, removed |-> 0]
  /\ UNCHANGED db

---------------------------------------------------------------------------
(* The queries under a single writer.  The store starts with organizer 1   *)
(* and any further organizers, named or with an empty name; tickets are    *)
(* created with any status, events deleted, and the cache                  *)
(* reloaded with or without a failed fetch.  The two queries nested in the *)
(* event summary take every outcome in their own actions.                  *)

OrganizerIds == 1..MaxOrganizerId
OrganizerNames == {"", "Ann"}

InitQueries ==
  \E f \in [OrganizerIds \ {1} -> OrganizerNames \cup {Unknown}] :
    LET d == [SeedDb EXCEPT !.Organizer =
                @ \cup {OrganizerRow(o, f[o]) : o \in {x \in OrganizerIds \ {1} : f[x] # Unknown}}]
    IN /\ db = d
       /\ cache = refresh_all_data(d, {})
       /\ last = Returned("init", 0, "True", d, d)

NextQueries ==
  \/ \E row \in PricedTicketInputs : add_ticket(row, TRUE, {})
  \/ \E e \in EventIds : delete_event(e, 0, {})
  \/ \E F \in FetchFailures : reload(F)
  \/ \E e \in EventIds, o1 \in TierOutcomes, o2 \in TierOutcomes :
       GetAvailableCapacity(e, o1, o2)
  \/ \E e \in EventIds, o1 \in TierOutcomes, o2 \in TierOutcomes :
       GetTotalConfirmedTickets(e, o1, o2)
  \/ \E o \in OrganizerIds, o1 \in TierOutcomes, o2 \in TierOutcomes :
       GetOrganizerName(o, o1, o2)
  \/ \E e \in EventIds, routine \in TierOutcomes :
       GetEventSummary(e, routine, "ok", "ok", "ok", "ok")

SpecQueries == InitQueries /\ [][NextQueries]_vars

---------------------------------------------------------------------------
(* Every create, update and delete of the core under a single writer,      *)
(* from the seeded store: rows name parents that exist and parents that    *)
(* do not.  The statements of the operations that issue more than one may  *)
(* fail separately; the refresh's fetches succeed.  At most MaxNewRows     *)
(* rows are added to the seeded ones.                                      *)

MaxNewRows == 1

VenueIds == {1, 2}

ParticipantIds == {1, 2}

EventRefs == {1, 2}

Room(d) == RowCount(d) < RowCount(SeedDb) + MaxNewRows

EntityEventInputs == {EventRow(1, v, o) : v \in VenueIds, o \in OrganizerIds}

EntityTicketInputs ==
  {TicketRow(1, e, p, "Pending", MaxPrice) : e \in EventRefs, p \in ParticipantIds}

EntityParticipantInputs == {ParticipantRow(2, m) : m \in Emails}

EntityVenueInputs == {VenueRow(2, SeedCapacity)}

EntityVolunteerInputs == {VolunteerRow(1, "a@x", e) : e \in EventRefs}

EntitySponsorInputs == {SponsorRow(1, e) : e \in EventRefs}

NextEntities ==
  \/ \E row \in EntityVenueInputs : Room(db) /\ add_venue(row, TRUE, {})
  \/ \E row \in EntityVenueInputs : update_venue(row, TRUE, {})
  \/ \E v \in VenueIds : delete_venue(v, TRUE, {})
  \/ \E row \in EntityEventInputs : Room(db) /\ add_event(row, TRUE, {})
  \/ \E row \in EntityEventInputs : update_event(row, TRUE, {})
  \/ \E e \in EventRefs, failAt \in {0, CommitStep} : delete_event(e, failAt, {})
  \/ \E row \in EntityParticipantInputs : Room(db) /\ add_participant(row, TRUE, {})
  \/ \E row \in EntityParticipantInputs : update_participant(row, TRUE, {})
  \/ \E p \in ParticipantIds : delete_participant(p, TRUE, {})
  \/ \E row \in EntityTicketInputs : Room(db) /\ add_ticket(row, TRUE, {})
  \/ \E row \in EntityTicketInputs : update_ticket(row, TRUE, {})
  \/ \E up1 \in BOOLEAN, up2 \in BOOLEAN : delete_ticket(1, up1, up2, {})
  \/ \E routine \in BOOLEAN, up1 \in BOOLEAN, up2 \in BOOLEAN :
       Room(db) /\ confirm_payment(1, routine, up1, up2, {})
  \/ \E routine \in BOOLEAN : mark_ticket_as_pending(1, routine, TRUE, {})
  \/ \E row \in EntityVolunteerInputs : Room(db) /\ add_volunteer(row, TRUE, {})
  \/ \E row \in EntityVolunteerInputs : update_volunteer(row, TRUE, {})
  \/ delete_volunteer(1, TRUE, {})
  \/ \E row \in EntitySponsorInputs : Room(db) /\ add_sponsor(row, TRUE, {})
  \/ \E row \in EntitySponsorInputs : update_sponsor(row, TRUE, {})
  \/ delete_sponsor(1, TRUE, {})
  \/ \E e \in EventRefs, up2 \in BOOLEAN :
       Room(db) /\ register_user_as_participant(e, "a@x", TRUE, up2, {})
  \/ \E e \in EventRefs : Room(db) /\ register_user_as_volunteer(e, "a@x", TRUE, {})

SpecEntities == Init /\ [][NextEntities]_vars

---------------------------------------------------------------------------
(* Database.delete_event with the log.  Here db also holds the Log table   *)
(* and the storage clock that stamps its rows, and cache also holds        *)
(* self.logs, a list.  A LogRow is written by log_event_deletion or by the *)
(* trigger TR_UpdateVolunteerOnEventDelete, which fires for the Event row  *)
(* the cascade deletes and commits with it.  refresh_all_data replaces     *)
(* self.logs by the fetched Log rows only when the fetch returns rows.     *)

MaxLogged == 3

LogLimit == 100

LogRow(n, e, by) == [Timestamp |-> n, Event_id |-> e, by |-> by]

WithLog(d, log, clock) ==
  [Organizer |-> d.Organizer, Venue |-> d.Venue, Participants |-> d.Participants,
   Event |-> d.Event, Sponsor |-> d.Sponsor, Volunteers |-> d.Volunteers,
   Ticket |-> d.Ticket, Payment |-> d.Payment, Log |-> log, Clock |-> clock]

WithLogs(c, logs) ==
  [organizers |-> c.organizers, venues |-> c.venues, participants |-> c.participants,
   events |-> c.events, sponsors |-> c.sponsors, volunteers |-> c.volunteers,
   tickets |-> c.tickets, payments |-> c.payments, logs |-> logs]

\* ORDER BY Timestamp DESC over the Log rows, held in the order they were
\* inserted (their timestamps never decrease): the rows from the last to
\* the first.  Two rows share a timestamp only when one is the trigger's
\* and the other log_event_deletion's of the same call; they are adjacent
\* and come in either order: `swapped` holds the positions where they swap.
OrderedByTimestampDesc(log) ==
  LET n == Len(log)
      q == [i \in 1..n |-> log[n + 1 - i]]
      shared == {i \in 1..(n - 1) : q[i].Timestamp = q[i + 1].Timestamp}
  IN {[i \in 1..n |-> IF i \in swapped THEN q[i + 1]
                      ELSE IF (i - 1) \in swapped THEN q[i - 1]
                      ELSE q[i]] : swapped \in SUBSET shared}

\* SELECT * FROM Log ORDER BY Timestamp DESC LIMIT 100
FetchLogs(log) ==
  {SubSeq(q, 1, IF Len(q) < LogLimit THEN Len(q) ELSE LogLimit) :
     q \in OrderedByTimestampDesc(log)}

\* refresh_all_data: `if logs_data:` keeps self.logs when the fetch failed
\* or returned no row.
LoadLogs(logs, logs_data, fetched) ==
  IF fetched /\ logs_data # <<>> THEN logs_data ELSE logs

\* log_event_deletion: the INSERT INTO Log through execute_query (its own
\* commit, its failure swallowed), then self.logs.append.
log_event_deletion(d, logs, e, up) ==
  LET entry == LogRow(d.Clock + 1, e, "log_event_deletion")
  IN [db |-> WithLog(d, IF up THEN Append(d.Log, entry) ELSE d.Log, d.Clock + 1),
      logs |-> Append(logs, entry)]

\* The trigger's rows for the Event row the cascade deleted (one at most).
TR_UpdateVolunteerOnEventDelete(before, after) ==
  LET gone == before.Event \ after.Event
  IN IF gone = {} THEN <<>>
     ELSE <<LogRow(before.Clock, (CHOOSE x \in gone : TRUE).Event_id,
                   "TR_UpdateVolunteerOnEventDelete")>>

DeleteEventWithLog(e, upLog, failAt, F, fetched) ==
  LET logged == log_event_deletion(db, cache.logs, e, upLog)
      r == CascadeCommit(logged.db, e, failAt)
      done == WithLog(r.db, logged.db.Log \o TR_UpdateVolunteerOnEventDelete(logged.db, r.db),
                      logged.db.Clock)
  IN /\ db.Clock < MaxLogged
     /\ db' = IF r.ok THEN done ELSE Rollback(logged.db, r.db)
     /\ IF r.ok
        THEN \E logs_data \in FetchLogs(done.Log) :
               cache' = WithLogs(refresh_all_data(done, F),
                                 LoadLogs(logged.logs, logs_data, fetched))
        ELSE cache' = WithLogs(cache, logged.logs)
     /\ last' = Returned("delete_event", e, IF r.ok THEN "True" ELSE "False", db, db')

\* The application's refresh with the log.
ReloadWithLog(fetched) ==
  /\ \E logs_data \in FetchLogs(db.Log) :
       cache' = WithLogs(refresh_all_data(db, {}), LoadLogs(cache.logs, logs_data, fetched))
  /\ last' = [op |-> "refresh_all_data", id |-> 0, res |-> {}, removed |-> 0]
  /\ UNCHANGED db

\* The store the application starts on: the seeded tables and a Log that is
\* empty, holds the row of an earlier run, or holds LogLimit rows of
\* earlier runs.
EarlierLog(n) == [k \in 1..n |-> LogRow(k - n, 1, "log_event_deletion")]

InitLog ==
  \E n \in {0, 1, LogLimit} :
    \E logs_data \in FetchLogs(EarlierLog(n)) :
      /\ db = WithLog(SeedDb, EarlierLog(n), 0)
      /\ cache = WithLogs(refresh_all_data(SeedDb, {}), LoadLogs(<<>>, logs_data, TRUE))
      /\ last = Returned("init", 0, "True", SeedDb, SeedDb)

NextLog ==
  \/ \E e \in EventIds, upLog \in BOOLEAN, failAt \in 0..CommitStep, fetched \in BOOLEAN :
       DeleteEventWithLog(e, upLog, failAt, {}, fetched)
  \/ \E fetched \in BOOLEAN : ReloadWithLog(fetched)

SpecLog == InitLog /\ [][NextLog]_vars

---------------------------------------------------------------------------
(* Every path that writes a Participants or Volunteers email, under a      *)
(* single writer, from the seeded store: the application's add-participant *)
(* and add-volunteer handlers, Database.add_participant and add_volunteer, *)
(* the two updates and public registration of a logged-in user; every      *)
(* statement and every fetch succeeds.                                     *)

EmailParticipantInputs == {ParticipantRow(p, m) : p \in ParticipantIds, m \in Emails}

NextEmails ==
  \/ \E row \in EmailParticipantInputs : App_add_participant(row, TRUE, {})
  \/ \E row \in EmailParticipantInputs : add_participant(row, TRUE, {})
  \/ \E row \in EmailParticipantInputs : update_participant(row, TRUE, {})
  \/ \E row \in VolunteerInputs : App_add_volunteer(row, TRUE, {})
  \/ \E row \in VolunteerInputs : add_volunteer(row, TRUE, {})
  \/ \E row \in VolunteerInputs : update_volunteer(row, TRUE, {})
  \/ \E e \in EventIds, m \in Emails : register_user_as_participant(e, m, TRUE, TRUE, {})
  \/ \E e \in EventIds, m \in Emails : register_user_as_volunteer(e, m, TRUE, {})
  \/ \E p \in ParticipantIds : delete_participant(p, TRUE, {})
  \/ \E v \in VolunteerIds : delete_volunteer(v, TRUE, {})

SpecEmails == Init /\ [][NextEmails]_vars

---------------------------------------------------------------------------
(* The event summary under a single writer, from the seeded store: tickets *)
(* are created, events deleted and the cache reloaded, and the routine and *)
(* the tiers of the two nested queries take every outcome.                 *)

NextSummary ==
  \/ \E row \in PricedTicketInputs : add_ticket(row, TRUE, {})
  \/ \E e \in EventIds : delete_event(e, 0, {})
  \/ \E F \in {{}, {"Ticket"}, {"Venue"}} : reload(F)
  \/ \E e \in EventIds, routine \in TierOutcomes, o1 \in TierOutcomes, o2 \in TierOutcomes,
        p1 \in TierOutcomes, p2 \in TierOutcomes :
       GetEventSummary(e, routine, o1, o2, p1, p2)

SpecSummary == Init /\ [][NextSummary]_vars

---------------------------------------------------------------------------
(* Two writers: two running applications, each with its own connection to  *)
(* the one store.  db holds the committed tables; cache holds the server's *)
(* isolation level and, per writer, where it stands in the application's   *)
(* add_ticket (idle, capacity checked, INSERT executed but not committed), *)
(* the ticket it is adding, the available capacity it read, and the        *)
(* snapshot its open transaction reads from: a fetch does not commit, so   *)
(* under REPEATABLE READ the reads that follow, the trigger's included,    *)
(* see the tables as of the transaction's first read until the commit.     *)
(* Writer w adds the ticket with Ticket_id w.                              *)

Writers == {1, 2}

IsolationLevels == {"REPEATABLE READ", "READ COMMITTED"}

Snapshot(d) == [Event |-> d.Event, Venue |-> d.Venue, Ticket |-> d.Ticket, open |-> TRUE]

\* The tables a read of writer w sees.
View(c, d, w) ==
  IF c.isolation = "REPEATABLE READ" /\ c.writer[w].snapshot.open
  THEN c.writer[w].snapshot
  ELSE Snapshot(d)

WriterRows(w) ==
  {TicketRow(w, e, 1, s, MaxPrice) : e \in EventIds, s \in {"Pending", "Confirmed"}}

\* EventManagementApp.add_ticket up to the capacity check (first tier).
WriterCheck(w, row) ==
  LET view == View(cache, db, w)
      available == get_available_capacity(view, refresh_all_data(db, {}), row.Event_id,
                                          TRUE, TRUE)
      full == available <= 0 /\ row.Status = "Confirmed"
  IN /\ cache.writer[w].pc = "idle"
     /\ \A t \in db.Ticket : t.Ticket_id # row.Ticket_id
     /\ cache' = [cache EXCEPT !.writer[w] =
                    [pc |-> IF full THEN "idle" ELSE "checked", row |-> row,
                     available |-> available, snapshot |-> view]]
     /\ last' = [op |-> "check", id |-> w,
                 res |-> IF full THEN "capacity error" ELSE "True", removed |-> 0]
     /\ UNCHANGED db

\* Database.add_ticket, cursor.execute of the INSERT: keys are checked on
\* the committed rows, the triggers read what the writer's transaction sees.
WriterExecute(w) ==
  LET row == cache.writer[w].row
      view == View(cache, db, w)
      accepted == /\ \A t \in db.Ticket : t.Ticket_id # row.Ticket_id
                  /\ TicketForeignKeys(db, row)
                  /\ TR_CheckTicketPrice(row)
                  /\ TR_CheckCapacityBeforeSale(view, row)
  IN /\ cache.writer[w].pc = "checked"
     /\ cache' = [cache EXCEPT !.writer[w].pc = IF accepted THEN "executed" ELSE "idle",
                               !.writer[w].snapshot = view]
     /\ last' = [op |-> "execute", id |-> w,
                 res |-> IF accepted THEN "True" ELSE "False", removed |-> 0]
     /\ UNCHANGED db

\* connection.commit() and refresh_all_data, whose fetches open the next
\* transaction.
WriterCommit(w) ==
  LET row == cache.writer[w].row
      d == [db EXCEPT !.Ticket = @ \cup {row}]
  IN /\ cache.writer[w].pc = "executed"
     /\ db' = d
     /\ cache' = [cache EXCEPT !.writer[w].pc = "idle", !.writer[w].snapshot = Snapshot(d)]
     /\ last' = Returned("commit", w, "True", db, d)

InitWriters ==
  \E isolation \in IsolationLevels :
    /\ db = SeedDb
    /\ cache = [isolation |-> isolation,
                writer |-> [w \in Writers |->
                              [pc |-> "idle", row |-> TicketRow(w, 1, 1, "Pending", MaxPrice),
                               available |-> 0, snapshot |-> Snapshot(SeedDb)]]]
    /\ last = Returned("init", 0, "True", SeedDb, SeedDb)

NextWriters ==
  \/ \E w \in Writers : \E row \in WriterRows(w) : WriterCheck(w, row)
  \/ \E w \in Writers : WriterExecute(w)
  \/ \E w \in Writers : WriterCommit(w)

SpecWriters == InitWriters /\ [][NextWriters]_vars

---------------------------------------------------------------------------
(* The connection: Database.connect and Database.execute_query with        *)
(* self.connection.  cache.connection is "None" (self.connection is None), *)
(* "connected" (is_connected() is True) or "closed" (a connection object   *)
(* whose is_connected() is False); cache.connects counts the calls of      *)
(* connect() that the last call of execute_query made.  The result of a    *)
(* call is True, False, "rows" (the list fetched), "[]" or the name of the *)
(* exception that leaves execute_query.                                    *)

\* Database.connect: mysql.connector.connect succeeds, or raises Error,
\* which is caught and leaves self.connection = None.
connect(reachable) == IF reachable THEN "connected" ELSE "None"

\* What the statement does once a cursor exists: "ok", "refused" (the
\* server answers with an error) or "lost" (the connection breaks, an
\* Error as well).
StatementOutcomes == {"ok", "refused", "lost"}

ExecuteQuery(fetch, reachable, outcome, r) ==
  LET reconnect == cache.connection # "connected"
      connection == IF reconnect THEN connect(reachable) ELSE cache.connection
      ran == connection # "None"
      done == ran /\ outcome = "ok" /\ r.ok
      res == IF ~ran THEN "AttributeError"
             ELSE IF fetch THEN (IF outcome = "ok" THEN "rows" ELSE "[]")
             ELSE IF done THEN "True" ELSE "False"
      after == IF done /\ ~fetch THEN r.db ELSE db
  IN /\ db' = after
     /\ cache' = [cache EXCEPT !.connection = IF ran /\ outcome = "lost" THEN "closed"
                                              ELSE connection,
                               !.connects = IF reconnect THEN 1 ELSE 0]
     /\ last' = Returned(IF fetch THEN "fetch" ELSE "write", 0, res, db, after)

\* The server or the network ends the connection between two calls.
ConnectionLost ==
  /\ cache.connection = "connected"
  /\ cache' = [cache EXCEPT !.connection = "closed"]
  /\ last' = Returned("lost", 0, "True", db, db)
  /\ UNCHANGED db

\* Database.__init__: connection = None, then connect().
InitGateway ==
  \E reachable \in BOOLEAN :
    /\ db = SeedDb
    /\ cache = [connection |-> connect(reachable), connects |-> 1]
    /\ last = Returned("init", 0, "True", SeedDb, SeedDb)

NextGateway ==
  \/ \E reachable \in BOOLEAN, outcome \in StatementOutcomes, row \in PricedTicketInputs :
       ExecuteQuery(FALSE, reachable, outcome, SqlInsertTicket(db, row))
  \/ \E reachable \in BOOLEAN, outcome \in StatementOutcomes, t \in TicketIds :
       ExecuteQuery(FALSE, reachable, outcome, SqlDeleteTickets(db, {t}))
  \/ \E reachable \in BOOLEAN, outcome \in StatementOutcomes :
       ExecuteQuery(TRUE, reachable, outcome, Accepted(db))
  \/ ConnectionLost

SpecGateway == InitGateway /\ [][NextGateway]_vars

---------------------------------------------------------------------------
(* Every operation of Database and of the application on the eight entity  *)
(* tables, with every statement and every fetch able to fail.             *)

Next ==
  \/ \E e \in EventIds, failAt \in 0..CommitStep, F \in FetchFailures :
       delete_event(e, failAt, F)
  \/ \E row \in EventInputs, up \in BOOLEAN, F \in FetchFailures : add_event(row, up, F)
  \/ \E row \in TicketInputs, up \in BOOLEAN, F \in FetchFailures : add_ticket(row, up, F)
  \/ \E row \in TicketInputs, t1 \in BOOLEAN, t2 \in BOOLEAN, up \in BOOLEAN,
        F \in FetchFailures : App_add_ticket(row, t1, t2, up, F)
  \/ \E row \in TicketInputs, up \in BOOLEAN, F \in FetchFailures : update_ticket(row, up, F)
  \/ \E id \in TicketIds, up1 \in BOOLEAN, up2 \in BOOLEAN, F \in FetchFailures :
       delete_ticket(id, up1, up2, F)
  \/ \E id \in TicketIds, routine \in BOOLEAN, up1 \in BOOLEAN, up2 \in BOOLEAN,
        F \in FetchFailures : confirm_payment(id, routine, up1, up2, F)
  \/ \E id \in TicketIds, routine \in BOOLEAN, up \in BOOLEAN, F \in FetchFailures :
       mark_ticket_as_pending(id, routine, up, F)
  \/ \E row \in VolunteerInputs, up \in BOOLEAN, F \in FetchFailures :
       add_volunteer(row, up, F)
  \/ \E row \in SponsorInputs, up \in BOOLEAN, F \in FetchFailures : add_sponsor(row, up, F)
  \/ \E e \in EventIds, m \in Emails, up1 \in BOOLEAN, up2 \in BOOLEAN,
        F \in FetchFailures : register_user_as_participant(e, m, up1, up2, F)
  \/ \E e \in EventIds, m \in Emails, up \in BOOLEAN, F \in FetchFailures :
       register_user_as_volunteer(e, m, up, F)
  \/ \E row \in EntityEventInputs, up \in BOOLEAN, F \in FetchFailures :
       update_event(row, up, F)
  \/ \E row \in EmailParticipantInputs, up \in BOOLEAN, F \in FetchFailures :
       \/ add_participant(row, up, F)
       \/ App_add_participant(row, up, F)
       \/ update_participant(row, up, F)
  \/ \E p \in ParticipantIds, up \in BOOLEAN, F \in FetchFailures :
       delete_participant(p, up, F)
  \/ \E row \in VolunteerInputs, up \in BOOLEAN, F \in FetchFailures :
       \/ App_add_volunteer(row, up, F)
       \/ update_volunteer(row, up, F)
  \/ \E v \in VolunteerIds, up \in BOOLEAN, F \in FetchFailures : delete_volunteer(v, up, F)
  \/ \E row \in EntityVenueInputs, up \in BOOLEAN, F \in FetchFailures :
       \/ add_venue(row, up, F)
       \/ update_venue(row, up, F)
  \/ \E v \in VenueIds, up \in BOOLEAN, F \in FetchFailures : delete_venue(v, up, F)
  \/ \E row \in SponsorInputs, up \in BOOLEAN, F \in FetchFailures : update_sponsor(row, up, F)
  \/ \E k \in SponsorIds, up \in BOOLEAN, F \in FetchFailures : delete_sponsor(k, up, F)
  \/ \E F \in FetchFailures : reload(F)
  \/ \E e \in EventIds, o1 \in TierOutcomes, o2 \in TierOutcomes :
       \/ GetAvailableCapacity(e, o1, o2)
       \/ GetTotalConfirmedTickets(e, o1, o2)
  \/ \E o \in OrganizerIds, o1 \in TierOutcomes, o2 \in TierOutcomes :
       GetOrganizerName(o, o1, o2)
  \/ \E e \in EventIds, routine \in TierOutcomes, o1 \in TierOutcomes, o2 \in TierOutcomes,
        p1 \in TierOutcomes, p2 \in TierOutcomes :
       GetEventSummary(e, routine, o1, o2, p1, p2)

Spec == Init /\ [][Next]_vars

---------------------------------------------------------------------------
(* Claims about the cascade (checked under SpecCascade). *)

\* C1: after delete_event(e) returns True, from any prior store, the store
\* holds no Event row with id e, no Ticket, Volunteer or Sponsor row whose
\* event is e, and no Payment row of a ticket that belonged to e.
C1_CascadeComplete ==
  [][(last'.op = "delete_event" /\ last'.res = "True") =>
       LET e == last'.id
       IN /\ \A x \in db'.Event : x.Event_id # e
          /\ \A t \in db'.Ticket : t.Event_id # e
          /\ \A v \in db'.Volunteers : v.Event_id # e
          /\ \A k \in db'.Sponsor : k.Event_id # e
          /\ \A p \in db'.Payment : p.Ticket_id \notin TicketsOfEvent(db, e)]_vars

\* C1 witness: a delete_event that returned True and removed an event with
\* every ticket id on it, each paid, and every volunteer and sponsor id.
C1_Witness ==
  /\ last.op = "delete_event"
  /\ last.res = "True"
  /\ last.removed = 1 + 2 * MaxTicketId + MaxVolunteerId + MaxSponsorId

\* C2: when any statement of the cascade or the commit fails, delete_event
\* returns False and the Event, Ticket, Payment, Volunteers and Sponsor
\* tables are exactly those before the call.
C2_CascadeAtomic ==
  [][/\ (last'.op = "delete_event" /\ last'.res # "False") =>
          \A k \in 1..CommitStep : ~delete_event(last'.id, k, {})
     /\ (last'.op = "delete_event" /\ last'.res = "False") => db' = db]_vars

\* C2 witness: a delete_event that returned False on an event that has a
\* paid ticket, a volunteer and a sponsor.
C2_Witness ==
  /\ last.op = "delete_event"
  /\ last.res = "False"
  /\ \E t \in db.Ticket :
       /\ t.Event_id = last.id
       /\ \E p \in db.Payment : p.Ticket_id = t.Ticket_id
  /\ \E v \in db.Volunteers : v.Event_id = last.id
  /\ \E k \in db.Sponsor : k.Event_id = last.id

---------------------------------------------------------------------------
(* Claims about payments (checked under SpecPayments). *)

HasStatus(d, id, s) == \E t \in d.Ticket : t.Ticket_id = id /\ t.Status = s

PaymentsOf(d, id) == {p \in d.Payment : p.Ticket_id = id}

\* The cache holds the Ticket and Payment tables as the store does.
TicketsInSync == cache.tickets = db.Ticket /\ cache.payments = db.Payment

\* C3: for an event whose venue has capacity C, the number of Confirmed
\* tickets of the event never exceeds C after any sequence of single-writer
\* operations: the attempt that would confirm one more is rejected.
C3_CapacityNeverExceeded ==
  \A x \in db.Event : \A v \in db.Venue :
    v.Venue_id = x.Venue_id => ConfirmedTickets(db.Ticket, x.Event_id) <= v.Capacity

\* C4: on a Pending ticket with one Payment on record, confirm_payment sets
\* the ticket to Confirmed and creates no Payment; on the ticket then
\* Confirmed with its Payment, confirm_payment reports that the payment
\* exists and changes nothing; the ticket has exactly one Payment throughout.
C4_PaymentIdempotent ==
  [][(last'.op = "confirm_payment" /\ TicketsInSync) =>
       \A id \in TicketIds, routine \in BOOLEAN :
         confirm_payment(id, routine, TRUE, TRUE, {}) =>
           /\ (HasStatus(db, id, "Pending") /\ Cardinality(PaymentsOf(db, id)) = 1)
                => /\ HasStatus(db', id, "Confirmed")
                   /\ db'.Payment = db.Payment
           /\ (HasStatus(db, id, "Confirmed") /\ Cardinality(PaymentsOf(db, id)) = 1)
                => /\ last'.res = Exists
                   /\ db' = db]_vars

\* C5: in every reachable state each ticket has at most one Payment row.
C5_AtMostOnePayment ==
  \A t \in db.Ticket : Cardinality(PaymentsOf(db, t.Ticket_id)) <= 1

\* C6: the two writes of confirm_payment take effect as one unit: no call
\* leaves a Payment row created for a ticket that stays Pending, and no call
\* leaves a ticket set to Confirmed with no Payment row.
C6_PaymentWritesAreOneUnit ==
  [][last'.op = "confirm_payment" =>
       LET id == last'.id
       IN /\ ~(PaymentsOf(db', id) # PaymentsOf(db, id) /\ HasStatus(db', id, "Pending"))
          /\ ~(/\ ~HasStatus(db, id, "Confirmed")
               /\ HasStatus(db', id, "Confirmed")
               /\ PaymentsOf(db', id) = {})]_vars

\* C7: confirm_payment on an id that resolves to no ticket reports NotFound,
\* and on a Cancelled ticket reports the rejection; in both cases no Payment
\* row is created and no ticket changes, whichever strategy serves the call.
C7_PreconditionFailures ==
  [][(last'.op = "confirm_payment" /\ TicketsInSync) =>
       LET id == last'.id
       IN /\ (\A t \in db.Ticket : t.Ticket_id # id)
               => (last'.res = NotFound /\ db'.Payment = db.Payment /\ db'.Ticket = db.Ticket)
          /\ HasStatus(db, id, "Cancelled")
               => (last'.res = Cancelled /\ db'.Payment = db.Payment
                   /\ db'.Ticket = db.Ticket)]_vars

\* C8: confirm_payment on a ticket that is already Confirmed (with or
\* without a Payment on record) or Cancelled never creates a Payment row.
C8_TerminalStatesTakeNoPayment ==
  [][(/\ last'.op = "confirm_payment"
      /\ TicketsInSync
      /\ (HasStatus(db, last'.id, "Confirmed") \/ HasStatus(db, last'.id, "Cancelled")))
       => db'.Payment \subseteq db.Payment]_vars

---------------------------------------------------------------------------
(* Claims about ticket creation and update (checked under SpecTickets). *)

\* C9: every attempt to create a Ticket with price <= 0 fails and adds no
\* Ticket row, on every path that creates tickets; consequently no stored
\* ticket ever has price <= 0.
C9_PriceInvariant ==
  [][/\ (last'.op \in {"add_ticket", "App_add_ticket", "register_user_as_participant"})
          => \A t \in db'.Ticket \ db.Ticket : t.Price > 0
     /\ \A t \in db'.Ticket : t.Price > 0]_vars

\* C10: a ticket creation or update that would store a ticket as Confirmed
\* while the capacity left for its event is <= 0 is rejected and leaves the
\* store unchanged; a Pending or Cancelled ticket is accepted whatever the
\* capacity left.
C10_AdmissionControl ==
  [][/\ (last'.op \in {"add_ticket", "App_add_ticket", "update_ticket"}) =>
          \A t \in db'.Ticket :
            ~(/\ t.Ticket_id = last'.id
              /\ t.Status = "Confirmed"
              /\ ~\E u \in db.Ticket :
                     /\ u.Ticket_id = t.Ticket_id
                     /\ u.Event_id = t.Event_id
                     /\ u.Status = "Confirmed"
              /\ Resolves(db, t.Event_id)
              /\ FN_GetAvailableCapacity(db, t.Event_id) <= 0)
     /\ last'.op = "add_ticket" =>
          \A row \in TicketInputs :
            (/\ row.Ticket_id = last'.id
             /\ row.Status # "Confirmed"
             /\ SqlInsertTicket(db, [row EXCEPT !.Status = "Pending"]).ok
             /\ add_ticket(row, TRUE, {}))
              => db'.Ticket = db.Ticket \cup {row}]_vars

---------------------------------------------------------------------------
(* Claims about the tiered queries (checked under SpecQueries). *)

CacheEqualsStorage == cache = refresh_all_data(db, {})

\* C11: with the cache equal to the store, get_available_capacity,
\* get_total_confirmed_tickets and get_organizer_name return the same value
\* whether the routine answers, the direct query answers because the routine
\* is unavailable, or the cache answers because both are unavailable: every
\* call returns what the call with both tiers executing returns.
C11_TierEquivalence ==
  [][CacheEqualsStorage =>
       /\ last'.op = "get_available_capacity" =>
            last'.res.value = AvailableCapacityAnswer(db, cache, last'.id, "ok", "ok").value
       /\ last'.op = "get_total_confirmed_tickets" =>
            last'.res.value = get_total_confirmed_tickets(db, cache, last'.id, "ok", "ok").value
       /\ last'.op = "get_organizer_name" =>
            last'.res.value = get_organizer_name(db, cache, last'.id, "ok", "ok").value]_vars

\* C12: in every tiered query the cache (tier 3) produces the result only
\* when the routine and the direct query both failed to execute; when one of
\* them executed, its outcome, a missing row included, is the answer.
C12_CacheOnlyWhenBothTiersFail ==
  [][/\ last'.op = "get_available_capacity" =>
          \A e \in EventIds, o1 \in TierOutcomes, o2 \in TierOutcomes :
            (GetAvailableCapacity(e, o1, o2) /\ last'.res.tier = 3)
              => (o1 # "ok" /\ o2 # "ok")
     /\ last'.op = "get_total_confirmed_tickets" =>
          \A e \in EventIds, o1 \in TierOutcomes, o2 \in TierOutcomes :
            (GetTotalConfirmedTickets(e, o1, o2) /\ last'.res.tier = 3)
              => (o1 # "ok" /\ o2 # "ok")
     /\ last'.op = "get_organizer_name" =>
          \A o \in OrganizerIds, o1 \in TierOutcomes, o2 \in TierOutcomes :
            (GetOrganizerName(o, o1, o2) /\ last'.res.tier = 3)
              => (o1 # "ok" /\ o2 # "ok")]_vars

\* C13: when the server-side routine of a query is absent, the query still
\* completes with the result of the next tier, and the absence is not
\* surfaced: no error dialog is shown and no error is returned.
C13_UnsupportedAbsorbed ==
  [][/\ last'.op = "get_available_capacity" =>
          \A e \in EventIds :
            (GetAvailableCapacity(e, "error", "ok") /\ Resolves(db, e))
              => (last'.res.value = DirectAvailableCapacity(db, e) /\ ~last'.res.dialog)
     /\ last'.op = "get_total_confirmed_tickets" =>
          \A e \in EventIds :
            GetTotalConfirmedTickets(e, "error", "ok")
              => (last'.res.value = ConfirmedTickets(db.Ticket, e) /\ ~last'.res.dialog)
     /\ last'.op = "get_organizer_name" =>
          \A o \in OrganizerIds :
            (GetOrganizerName(o, "error", "ok")
             /\ OrganizerNamesFound(db.Organizer, o) \notin {{}, {""}})
              => (last'.res.value \in OrganizerNamesFound(db.Organizer, o)
                  /\ ~last'.res.dialog)
     /\ last'.op = "get_event_summary" =>
          \A e \in EventIds :
            (GetEventSummary(e, "error", "ok", "ok", "ok", "ok") /\ CacheEqualsStorage
             /\ Resolves(db, e))
              => ("error" \notin DOMAIN last'.res.value /\ ~last'.res.dialog)]_vars

---------------------------------------------------------------------------
(* Claims about the cache (C14 under SpecQueries, C15 under SpecEntities). *)

\* The attribute of Database that caches a table.
CacheField(name) ==
  CASE name = "Organizer" -> "organizers"
    [] name = "Venue" -> "venues"
    [] name = "Participants" -> "participants"
    [] name = "Event" -> "events"
    [] name = "Sponsor" -> "sponsors"
    [] name = "Volunteers" -> "volunteers"
    [] name = "Ticket" -> "tickets"
    [] name = "Payment" -> "payments"

\* C14: when refresh_all_data runs and the fetch of a table fails, the cache
\* keeps the rows it held for that table; every table whose fetch succeeds
\* holds the fetched rows.
C14_ReloadKeepsStaleTable ==
  [][last'.op = "refresh_all_data" =>
       \A name \in TableNames :
         cache'[CacheField(name)] =
           IF name \in last'.res THEN cache[CacheField(name)] ELSE db[name]]_vars

\* The values a mutation returns on success.
SuccessResults == {"True", Recorded, OnRecord}

\* C15: read-after-write.  Whenever a mutation (create, update or delete of
\* an entity, delete_event, confirm_payment, mark_ticket_as_pending, public
\* registration) returns success and the reload's fetches succeed, every
\* cached entity table equals the stored table right after the call.
C15_ReadAfterWrite ==
  [][last'.res \in SuccessResults => cache' = refresh_all_data(db', {})]_vars

\* confirm_payment(1) returned success and the cache holds the new Payment.
C15_Witness ==
  /\ last.op = "confirm_payment"
  /\ last.res = Recorded
  /\ \E p \in cache.payments : p.Ticket_id = 1
  /\ \E t \in cache.tickets : t.Ticket_id = 1 /\ t.Status = "Confirmed"
  /\ cache = refresh_all_data(db, {})

---------------------------------------------------------------------------
(* Claims about the stored rows (checked under SpecEntities). *)

ReferentialIntegrity(d) ==
  /\ \A x \in d.Event :
       /\ \E v \in d.Venue : v.Venue_id = x.Venue_id
       /\ \E o \in d.Organizer : o.Organizer_id = x.Organizer_id
  /\ \A t \in d.Ticket :
       /\ \E x \in d.Event : x.Event_id = t.Event_id
       /\ \E p \in d.Participants : p.Participant_id = t.Participant_id
  /\ \A k \in d.Sponsor : \E x \in d.Event : x.Event_id = k.Event_id
  /\ \A v \in d.Volunteers : \E x \in d.Event : x.Event_id = v.Event_id
  /\ \A p \in d.Payment : \E t \in d.Ticket : t.Ticket_id = p.Ticket_id

\* The parents a row of `table` names exist in d: d with the row added
\* has no dangling reference.
ParentsExist(d, table, row) ==
  ReferentialIntegrity([d EXCEPT ![table] = @ \cup {row}])

\* An INSERT of `row`, or an UPDATE of the stored row with its key, that
\* names a parent missing from d leaves d as it is and returns False.
Rejected(d, table, key, ins, upd, row) ==
  ~ParentsExist(d, table, row) =>
    /\ ~ins.ok /\ ins.db = d
    /\ (\E x \in d[table] : x[key] = row[key]) => (~upd.ok /\ upd.db = d)

---------------------------------------------------------------------------
(* Claim about the log (checked under SpecLog). *)

\* C16: every delete_event(e) call appends a log entry naming e before the
\* cascade, and an entry of this call naming e (the appended one, or the
\* stored row that replaced it) is in self.logs when the call has returned,
\* whether the cascade committed or was rolled back.
C16_DeletionLogged ==
  [][last'.op = "delete_event" =>
       \E i \in DOMAIN cache'.logs :
         /\ cache'.logs[i].Event_id = last'.id
         /\ cache'.logs[i].Timestamp = db.Clock + 1]_vars

---------------------------------------------------------------------------
(* Claim about emails (checked under SpecEmails). *)

\* C18: in every reachable state no two Participants rows share an email and
\* no two Volunteers rows share an email.
C18_EmailsUnique ==
  /\ \A p \in db.Participants, q \in db.Participants :
       p.Email = q.Email => p.Participant_id = q.Participant_id
  /\ \A v \in db.Volunteers, w \in db.Volunteers :
       v.Email = w.Email => v.Volunteer_id = w.Volunteer_id

---------------------------------------------------------------------------
(* Claim about the cascade's order (checked under SpecCascade). *)

\* The transaction's tables after each statement of delete_event(e).
CascadeStates(d, e, failAt) ==
  {CascadeSelect(d, e, failAt).db, CascadePayments(d, e, failAt).db,
   CascadeTickets(d, e, failAt).db, CascadeVolunteers(d, e, failAt).db,
   CascadeSponsors(d, e, failAt).db, CascadeEvent(d, e, failAt).db}

RowsOfEvent(d, e) ==
  [Payment |-> {p \in d.Payment : \E t \in d.Ticket : t.Ticket_id = p.Ticket_id /\ t.Event_id = e},
   Ticket |-> {t \in d.Ticket : t.Event_id = e},
   Volunteers |-> {v \in d.Volunteers : v.Event_id = e},
   Sponsor |-> {k \in d.Sponsor : k.Event_id = e},
   Event |-> {x \in d.Event : x.Event_id = e}]

\* The rows of event e after a statement: the tables named in `gone` hold
\* none, the other tables hold what d held.
Deleted(d, after, e, gone) ==
  \A name \in {"Payment", "Ticket", "Volunteers", "Sponsor", "Event"} :
    {r \in after[name] : r \in RowsOfEvent(d, e)[name]} =
      IF name \in gone THEN {} ELSE RowsOfEvent(d, e)[name]

\* C19: from every reachable store, delete_event(e) deletes the Payments of
\* the event's tickets, then its Tickets, then its Volunteers, then its
\* Sponsors, then the Event row, every statement being accepted, and after
\* each statement, whichever statement fails, no Payment names a missing
\* Ticket and no Ticket, Volunteer or Sponsor names a missing Event.
C19_CascadeOrder ==
  \A e \in EventIds :
    /\ \A failAt \in 0..CommitStep :
         \A d \in CascadeStates(db, e, failAt) : ReferentialIntegrity(d)
    /\ CascadeEvent(db, e, 0).ok
    /\ Deleted(db, CascadeSelect(db, e, 0).db, e, {})
    /\ Deleted(db, CascadePayments(db, e, 0).db, e, {"Payment"})
    /\ Deleted(db, CascadeTickets(db, e, 0).db, e, {"Payment", "Ticket"})
    /\ Deleted(db, CascadeVolunteers(db, e, 0).db, e, {"Payment", "Ticket", "Volunteers"})
    /\ Deleted(db, CascadeSponsors(db, e, 0).db, e,
               {"Payment", "Ticket", "Volunteers", "Sponsor"})
    /\ Deleted(db, CascadeEvent(db, e, 0).db, e,
               {"Payment", "Ticket", "Volunteers", "Sponsor", "Event"})

\* After one event was deleted, another still holds a paid ticket, a
\* volunteer and a sponsor: its cascade passes through a state without its
\* Payments and Tickets that still holds its Volunteers, Sponsors and row.
C19_Witness ==
  /\ last.op = "delete_event" /\ last.res = "True" /\ last.removed > 1
  /\ \E e \in EventIds :
       LET rows == RowsOfEvent(db, e)
           mid == CascadeTickets(db, e, 0).db
       IN /\ \A name \in DOMAIN rows : rows[name] # {}
          /\ RowsOfEvent(mid, e).Ticket = {}
          /\ RowsOfEvent(mid, e).Volunteers # {}
          /\ mid.Payment # db.Payment

---------------------------------------------------------------------------
(* Claim about delete_ticket (checked under SpecEntities). *)

PaymentsHaveTickets(d) ==
  \A p \in d.Payment : \E t \in d.Ticket : t.Ticket_id = p.Ticket_id

---------------------------------------------------------------------------
(* Claims about what the queries compute (checked under SpecQueries). *)

ConfirmedCount(d, e) ==
  Cardinality({t \in d.Ticket : t.Event_id = e /\ t.Status = "Confirmed"})

\* C21: with the cache holding what the store holds, get_available_capacity(e)
\* returns the capacity of e's venue minus the number of Confirmed tickets of
\* e, and 0 when e or its venue is not stored; get_total_confirmed_tickets(e)
\* returns that number of Confirmed tickets.
C21_QueryValues ==
  [][CacheEqualsStorage =>
       /\ last'.op = "get_available_capacity" =>
            last'.res.value =
              IF \E x \in db.Event : x.Event_id = last'.id /\
                   \E v \in db.Venue : v.Venue_id = x.Venue_id
              THEN (CHOOSE v \in db.Venue :
                      \E x \in db.Event : x.Event_id = last'.id /\ x.Venue_id = v.Venue_id).Capacity
                   - ConfirmedCount(db, last'.id)
              ELSE 0
       /\ last'.op = "get_total_confirmed_tickets" =>
            last'.res.value = ConfirmedCount(db, last'.id)]_vars


\* C22 (checked under SpecSummary): with the cache holding what the store
\* holds, get_event_summary(e) answers with an error when e or its venue is
\* not stored; otherwise it returns the venue's capacity, and its numbers
\* agree: Available = Capacity - Confirmed_Tickets, whichever tiers served
\* the two nested queries.
C22_SummaryConsistent ==
  [][(last'.op = "get_event_summary" /\ CacheEqualsStorage) =>
       LET value == last'.res.value
       IN IF Resolves(db, last'.id)
          THEN /\ "error" \notin DOMAIN value
               /\ \E v \in db.Venue : v.Capacity = value.Capacity
               /\ value.Available = value.Capacity - value.Confirmed_Tickets
          ELSE "error" \in DOMAIN value]_vars


---------------------------------------------------------------------------
(* Claims about the in-memory log (checked under SpecLog). *)

\* C23: in every reachable state self.logs holds at most LogLimit entries
\* and lists them newest first.
C23_LogCappedNewestFirst ==
  /\ Len(cache.logs) <= LogLimit
  /\ \A i \in DOMAIN cache.logs, j \in DOMAIN cache.logs :
       i < j => cache.logs[i].Timestamp >= cache.logs[j].Timestamp

\* C24: self.logs is append-only: every entry it holds is still held after
\* the next operation, a reload included, whether or not the entry was
\* persisted, unless the cap of LogLimit entries is reached.
C24_LogRetained ==
  [][\A i \in DOMAIN cache.logs :
       \/ \E j \in DOMAIN cache'.logs : cache'.logs[j] = cache.logs[i]
       \/ Len(cache'.logs) >= LogLimit]_vars


---------------------------------------------------------------------------
(* Claims about two concurrent writers (checked under SpecWriters). *)

Oversubscribed(d) ==
  \E e \in EventIds : Resolves(d, e) /\ FN_GetTotalConfirmedTickets(d, e) >
                                         (CHOOSE v \in VenueOfEvent(d, e) : TRUE).Capacity

\* C25: with two writers the Confirmed count of an event can come to exceed
\* the venue's capacity, and it does so only by the commit of a Confirmed
\* ticket whose writer had read a positive available capacity that another
\* writer's commit has since lowered: the check in the application and the
\* one in the trigger both passed on an outdated count.
C25_OversubscribedOnlyByOvertakenWriter ==
  [][(~Oversubscribed(db) /\ Oversubscribed(db')) =>
       /\ last'.op = "commit"
       /\ LET writer == cache.writer[last'.id]
          IN /\ writer.row.Status = "Confirmed"
             /\ writer.available > 0
             /\ writer.available > FN_GetAvailableCapacity(db, writer.row.Event_id)]_vars

\* Both writers read one seat left for the same event, both inserted a
\* Confirmed ticket, and the event now has more Confirmed tickets than seats.
C25_BothReadOneSeatLeft ==
  /\ Oversubscribed(db)
  /\ \A w \in Writers :
       /\ cache.writer[w].available = 1
       /\ cache.writer[w].row \in db.Ticket
       /\ cache.writer[w].row.Status = "Confirmed"
  /\ cache.writer[1].row.Event_id = cache.writer[2].row.Event_id


---------------------------------------------------------------------------
(* Claims about the connection (checked under SpecGateway). *)

\* C26: a call of execute_query makes at most one reconnect attempt, and
\* every failure, a failed reconnect included, is returned as False (write)
\* or [] (read); no exception leaves the call.
C26_FailuresAreReturned ==
  [][last'.op \in {"write", "fetch"} =>
       /\ cache'.connects <= 1
       /\ last'.res \in (IF last'.op = "write" THEN {"True", "False"} ELSE {"rows", "[]"})]_vars


---------------------------------------------------------------------------
(* The frame of delete_event (checked under SpecCascade). *)

\* C27: delete_event(e), whether it returns True or False, leaves every row
\* outside event e's aggregate as it was: the other Events, the Tickets,
\* Volunteers and Sponsors of other events, the Payments of other events'
\* tickets and every Venue, Organizer and Participant; when no Event has the
\* id e, no entity table changes.
C27_DeleteEventFrame ==
  [][last'.op = "delete_event" =>
       LET e == last'.id
           own == TicketsOfEvent(db, e)
       IN /\ {x \in db'.Event : x.Event_id # e} = {x \in db.Event : x.Event_id # e}
          /\ {t \in db'.Ticket : t.Event_id # e} = {t \in db.Ticket : t.Event_id # e}
          /\ {v \in db'.Volunteers : v.Event_id # e} = {v \in db.Volunteers : v.Event_id # e}
          /\ {k \in db'.Sponsor : k.Event_id # e} = {k \in db.Sponsor : k.Event_id # e}
          /\ {p \in db'.Payment : p.Ticket_id \notin own} =
               {p \in db.Payment : p.Ticket_id \notin own}
          /\ db'.Venue = db.Venue
          /\ db'.Organizer = db.Organizer
          /\ db'.Participants = db.Participants
          /\ (\A x \in db.Event : x.Event_id # e) => db' = db]_vars

\* C27 witness: a delete_event that returned True and removed an event with
\* its paid ticket, while another event keeps its paid ticket, its volunteer
\* and its sponsor.
C27_Witness ==
  /\ last.op = "delete_event"
  /\ last.res = "True"
  /\ last.removed >= 3
  /\ \E x \in db.Event :
       /\ \E t \in db.Ticket : t.Event_id = x.Event_id /\ PaymentsOf(db, t.Ticket_id) # {}
       /\ \E v \in db.Volunteers : v.Event_id = x.Event_id
       /\ \E k \in db.Sponsor : k.Event_id = x.Event_id


---------------------------------------------------------------------------
(* Claims about failed operations (checked under SpecEntities and          *)
(* SpecTickets).                                                           *)

\* C28: delete_ticket(t) is all-or-nothing: when it returns False, the
\* Payment rows of ticket t that were stored before the call are still
\* stored.
C28_DeleteTicketAllOrNothing ==
  [][(last'.op = "delete_ticket" /\ last'.res = "False") =>
       PaymentsOf(db, last'.id) \subseteq db'.Payment]_vars

\* C29: with one writer and every reload fetch succeeding, between two
\* operations every cached table equals the stored table, also after an
\* operation that returned failure, so that the manual path of
\* confirm_payment decides from the cache what it would decide from storage.
C29_CacheMirrorsStorage ==
  /\ CacheEqualsStorage
  /\ \A id \in TicketIds :
       ManualConfirmPayment(db, cache, id, TRUE, TRUE) =
         ManualConfirmPayment(db, refresh_all_data(db, {}), id, TRUE, TRUE)

\* C30: the ids the public registration computes from the cache (largest
\* cached id + 1) are fresh after any sequence of operations, registrations
\* that failed part-way included: no stored Participant, Ticket or Volunteer
\* has them already.
C30_RegistrationIdsFresh ==
  /\ \A p \in db.Participants : p.Participant_id # get_next_participant_id(cache)
  /\ \A t \in db.Ticket : t.Ticket_id # NextTicketId(cache)
  /\ \A v \in db.Volunteers : v.Volunteer_id # get_next_volunteer_id(cache)


====
